---- MODULE Spec2Model ----
(***************************************************************************)
(* SimpleStorage native contract of cita-executor                          *)
(* (cita-executor/core/src/contracts/native/simple_storage.rs).            *)
(*                                                                         *)
(* Bytes are integers 0..255 and call data is a sequence of bytes.  A u32  *)
(* is the pair <<high 16 bits, low 16 bits>>; a u64 (and a usize, on the   *)
(* 64-bit targets the executor is built for) is the sequence of its 8      *)
(* bytes, least significant first; a U256 is the tuple of its four u64     *)
(* limbs, least significant first, as in the field `.0` of the type.       *)
(***************************************************************************)
EXTENDS Integers, Sequences, FiniteSets, TLC

VARIABLES contract, storage, last, calls, session

vars == <<contract, storage, last, calls, session>>

\* Number of exec calls in one behaviour.
MaxCalls == 2

\* Number of exec calls in one behaviour of a session.
MaxSessionCalls == 3

-----------------------------------------------------------------------------
(* Bytes, slices and machine words *)

Zeros(n) == [i \in 1..n |-> 0]

Reverse(s) == [i \in 1..Len(s) |-> s[Len(s) + 1 - i]]

\* A small natural number (below 2^31) as a u64 / usize.
U64FromNat(n) ==
    [i \in 1..8 |-> IF i = 1 THEN n % 256
                    ELSE IF i = 2 THEN (n \div 256) % 256
                    ELSE IF i = 3 THEN (n \div 65536) % 256
                    ELSE IF i = 4 THEN n \div 16777216
                    ELSE 0]

\* The value of a usize that is known to be small (at most a data length).
U64ToNat(w) == w[1] + 256 * w[2] + 65536 * w[3] + 16777216 * w[4]

\* w1 <= w2 as unsigned 64-bit numbers.
U64Le(w1, w2) ==
    \/ w1 = w2
    \/ \E i \in 1..8 : /\ w1[i] < w2[i]
                       /\ \A j \in (i + 1)..8 : w1[j] = w2[j]

\* a + b on usize: the wrapped sum and whether the addition overflowed.
AddUsize(a, b) ==
    LET carry[i \in 1..9] ==
            IF i = 1 THEN 0 ELSE (a[i - 1] + b[i - 1] + carry[i - 1]) \div 256
    IN  [sum      |-> [i \in 1..8 |-> (a[i] + b[i] + carry[i]) % 256],
         overflow |-> carry[9] = 1]

\* slice.get(from..to) with usize bounds: None when from > to or to > len.
SliceGet(data, from, to) ==
    IF U64Le(from, to) /\ U64Le(to, U64FromNat(Len(data)))
    THEN [some |-> TRUE, v |-> SubSeq(data, U64ToNat(from) + 1, U64ToNat(to))]
    ELSE [some |-> FALSE]

\* slice.get(from..to) with literal bounds from <= to.
DataGet(data, from, to) ==
    IF to <= Len(data)
    THEN [some |-> TRUE, v |-> SubSeq(data, from + 1, to)]
    ELSE [some |-> FALSE]

\* U256::from(&[u8]) of a 32-byte big-endian slice.
U256FromBytes(b) ==
    [k \in 1..4 |-> Reverse(SubSeq(b, 32 - 8 * k + 1, 32 - 8 * (k - 1)))]

\* U256::from(usize).
U256FromUsize(w) == <<w, Zeros(8), Zeros(8), Zeros(8)>>

U256Zero == <<Zeros(8), Zeros(8), Zeros(8), Zeros(8)>>

\* U256::low_u64.
low_u64(u) == u[1]

\* serialize_into::<_, _, _, BigEndian> of one u64.
SerializeU64BE(w) == Reverse(w)

\* for i in u.0.iter().rev() { serialize_into BigEndian(i) }
SerializeLimbsRev(u) ==
    SerializeU64BE(u[4]) \o SerializeU64BE(u[3]) \o SerializeU64BE(u[2]) \o SerializeU64BE(u[1])

\* U256::to_big_endian into a 32-byte buffer (every byte is overwritten).
to_big_endian(u) ==
    [i \in 1..32 |-> u[4 - ((i - 1) \div 8)][8 - ((i - 1) % 8)]]

\* Vec::resize(n, 0).
Resize(v, n) == [i \in 1..n |-> IF i <= Len(v) THEN v[i] ELSE 0]

\* A UTF-8 continuation byte.
IsCont(b) == b >= 128 /\ b <= 191

\* String::from_utf8 succeeds on the byte sequence s.
RECURSIVE IsUtf8(_)
IsUtf8(s) ==
    IF Len(s) = 0 THEN TRUE
    ELSE LET b == s[1]
             n == Len(s)
         IN  IF b <= 127 THEN IsUtf8(Tail(s))
             ELSE IF b >= 194 /\ b <= 223
                  THEN n >= 2 /\ IsCont(s[2]) /\ IsUtf8(SubSeq(s, 3, n))
             ELSE IF b >= 224 /\ b <= 239
                  THEN /\ n >= 3
                       /\ IsCont(s[2]) /\ IsCont(s[3])
                       /\ (b = 224 => s[2] >= 160)
                       /\ (b = 237 => s[2] <= 159)
                       /\ IsUtf8(SubSeq(s, 4, n))
             ELSE IF b >= 240 /\ b <= 244
                  THEN /\ n >= 4
                       /\ IsCont(s[2]) /\ IsCont(s[3]) /\ IsCont(s[4])
                       /\ (b = 240 => s[2] >= 144)
                       /\ (b = 244 => s[2] <= 143)
                       /\ IsUtf8(SubSeq(s, 5, n))
             ELSE FALSE

-----------------------------------------------------------------------------
(* Results of exec *)

\* Ok(InterpreterResult::Normal(data, quota, logs)).
Normal(data, quota, logs) ==
    [kind |-> "Normal", data |-> data, quota |-> quota, logs |-> logs]

\* Err(NativeError::...).
Err(e) == [kind |-> "Err", err |-> e]

\* A panic (expect on None, unwrap on Err, checked arithmetic): no value is
\* returned to the caller of exec.
Panic(msg) == [kind |-> "Panic", msg |-> msg]

\* What a handler leaves behind: its result, the instance, the storage and
\* the sequence of calls it made on the storage capability.
Outcome(handler, res, self, st, trace) ==
    [handler |-> handler, res |-> res, contract |-> self, storage |-> st, trace |-> trace]

-----------------------------------------------------------------------------
(* Storage capability and the Scalar / Array / Map slot types.  A key is    *)
(* composed of the contract address, the slot identifier and the index or   *)
(* key bytes (empty for a scalar); a word is stored as its 32 big-endian    *)
(* bytes and a string as its bytes; a key never written reads as zero.      *)
(* dp.fail says whether the capability reports an error during this call.   *)

StorageKey(addr, position, sub) == <<addr, position, sub>>

StorageFailure == "storage failure"

DpRead(st, key, default) == IF key \in DOMAIN st THEN st[key] ELSE default

DpWrite(st, key, v) == [k \in (DOMAIN st) \cup {key} |-> IF k = key THEN v ELSE st[k]]

StorageGet(dp, key, default) ==
    IF dp.fail
    THEN [ok |-> FALSE, err |-> StorageFailure, trace |-> <<[op |-> "get", key |-> key]>>]
    ELSE [ok |-> TRUE, v |-> DpRead(dp.storage, key, default),
          trace |-> <<[op |-> "get", key |-> key]>>]

StorageSet(dp, key, v) ==
    IF dp.fail
    THEN [ok |-> FALSE, err |-> StorageFailure, storage |-> dp.storage,
          trace |-> <<[op |-> "set", key |-> key]>>]
    ELSE [ok |-> TRUE, storage |-> DpWrite(dp.storage, key, v),
          trace |-> <<[op |-> "set", key |-> key]>>]

ScalarSet(position, dp, addr, value) ==
    StorageSet(dp, StorageKey(addr, position, <<>>), to_big_endian(value))

ScalarGet(position, dp, addr) ==
    LET r == StorageGet(dp, StorageKey(addr, position, <<>>), Zeros(32))
    IN  IF r.ok THEN [r EXCEPT !.v = U256FromBytes(@)] ELSE r
\* Fault: a string written over the stored one byte by byte, leaving the
\* tail of a longer stored string in place.
ScalarSetBytes_overlay(position, dp, addr, str) ==
    LET key == StorageKey(addr, position, <<>>)
        old == DpRead(dp.storage, key, <<>>)
    IN  StorageSet(dp, key, str \o SubSeq(old, Len(str) + 1, Len(old)))

ScalarSetBytes(position, dp, addr, str) ==
    StorageSet(dp, StorageKey(addr, position, <<>>), str)

ScalarGetBytes(position, dp, addr) ==
    StorageGet(dp, StorageKey(addr, position, <<>>), <<>>)

ArraySet(position, dp, addr, index, value) ==
    StorageSet(dp, StorageKey(addr, position, index), to_big_endian(value))

ArrayGet(position, dp, addr, index) ==
    LET r == StorageGet(dp, StorageKey(addr, position, index), Zeros(32))
    IN  IF r.ok THEN [r EXCEPT !.v = U256FromBytes(@)] ELSE r

MapSet(position, dp, addr, key, value) ==
    StorageSet(dp, StorageKey(addr, position, to_big_endian(key)), to_big_endian(value))

MapGet(position, dp, addr, key) ==
    LET r == StorageGet(dp, StorageKey(addr, position, to_big_endian(key)), Zeros(32))
    IN  IF r.ok THEN [r EXCEPT !.v = U256FromBytes(@)] ELSE r

-----------------------------------------------------------------------------
(* The contract *)
\* Fault: the string field bound to the slot of the uint field.
Default_shared_slot ==
    [output       |-> <<>>,
     uint_value   |-> 0,
     string_value |-> 0,
     array_value  |-> 2,
     map_value    |-> 3]

\* impl Default for SimpleStorage.
Default ==
    [output       |-> <<>>,
     uint_value   |-> 0,
     string_value |-> 1,
     array_value  |-> 2,
     map_value    |-> 3]

\* Contract::create.
create == Default
\* Fault: init rejecting call data that continues after the selector.
init_strict(self, params, dp) ==
    IF Len(params.data) > 4
    THEN Outcome("init", Err("Internal: out of gas"), self, dp.storage, <<>>)
    ELSE Outcome("init", Normal(<<>>, 100, <<>>), self, dp.storage, <<>>)

init(self, params, dp) ==
    Outcome("init", Normal(<<>>, 100, <<>>), self, dp.storage, <<>>)
\* Fault: uint_set storing under one fixed address instead of
\* params.code_address.
uint_set_fixed_address(self, params, dp) ==
    LET arg == DataGet(params.data, 4, 36)
    IN  IF ~arg.some
        THEN Outcome("uint_set", Panic("no enough data"), self, dp.storage, <<>>)
        ELSE LET value == U256FromBytes(arg.v)
                 r == ScalarSet(self.uint_value, dp,
                                "0x4b5ae4567ad5d9fb92bc9afd6a657e6fa13a2523", value)
             IN  IF ~r.ok
                 THEN Outcome("uint_set", Err(r.err), self, r.storage, r.trace)
                 ELSE Outcome("uint_set", Normal(<<>>, 100, <<>>), self, r.storage, r.trace)
\* Fault: uint_set keeping the value already stored in the slot.
uint_set_once(self, params, dp) ==
    LET arg == DataGet(params.data, 4, 36)
    IN  IF ~arg.some
        THEN Outcome("uint_set", Panic("no enough data"), self, dp.storage, <<>>)
        ELSE LET value == U256FromBytes(arg.v)
                 r == ScalarSet(self.uint_value, dp, params.code_address, value)
             IN  IF ~r.ok
                 THEN Outcome("uint_set", Err(r.err), self, r.storage, r.trace)
                 ELSE IF StorageKey(params.code_address, self.uint_value, <<>>)
                         \in DOMAIN dp.storage
                 THEN Outcome("uint_set", Normal(<<>>, 100, <<>>), self, dp.storage, r.trace)
                 ELSE Outcome("uint_set", Normal(<<>>, 100, <<>>), self, r.storage, r.trace)

uint_set(self, params, dp) ==
    LET arg == DataGet(params.data, 4, 36)
    IN  IF ~arg.some
        THEN Outcome("uint_set", Panic("no enough data"), self, dp.storage, <<>>)
        ELSE LET value == U256FromBytes(arg.v)
                 r == ScalarSet(self.uint_value, dp, params.code_address, value)
             IN  IF ~r.ok
                 THEN Outcome("uint_set", Err(r.err), self, r.storage, r.trace)
                 ELSE Outcome("uint_set", Normal(<<>>, 100, <<>>), self, r.storage, r.trace)
\* Fault: uint_get writing the limbs least significant first.
uint_get_unreversed(self, params, dp) ==
    LET self1 == [self EXCEPT !.output = Resize(@, 32)]
        r == ScalarGet(self.uint_value, dp, params.code_address)
    IN  IF ~r.ok
        THEN Outcome("uint_get", Err(r.err), self1, dp.storage, r.trace)
        ELSE LET self2 == [self1 EXCEPT !.output =
                              SerializeU64BE(r.v[1]) \o SerializeU64BE(r.v[2])
                              \o SerializeU64BE(r.v[3]) \o SerializeU64BE(r.v[4])]
             IN  Outcome("uint_get", Normal(self2.output, 100, <<>>), self2, dp.storage, r.trace)
\* Fault: uint_get writing the value it read back to the slot.
uint_get_storing(self, params, dp) ==
    LET self1 == [self EXCEPT !.output = Resize(@, 32)]
        r == ScalarGet(self.uint_value, dp, params.code_address)
    IN  IF ~r.ok
        THEN Outcome("uint_get", Err(r.err), self1, dp.storage, r.trace)
        ELSE LET self2 == [self1 EXCEPT !.output = to_big_endian(r.v)]
                 w == ScalarSet(self.uint_value, dp, params.code_address, r.v)
             IN  Outcome("uint_get", Normal(self2.output, 100, <<>>), self2,
                         w.storage, r.trace \o w.trace)

uint_get(self, params, dp) ==
    LET self1 == [self EXCEPT !.output = Resize(@, 32)]
        r == ScalarGet(self.uint_value, dp, params.code_address)
    IN  IF ~r.ok
        THEN Outcome("uint_get", Err(r.err), self1, dp.storage, r.trace)
        ELSE LET self2 == [self1 EXCEPT !.output = to_big_endian(r.v)]
             IN  Outcome("uint_get", Normal(self2.output, 100, <<>>), self2, dp.storage, r.trace)

string_set(self, params, dp, checked) ==
    LET data == params.data
        head == DataGet(data, 4, 36)
    IN  IF ~head.some
        THEN Outcome("string_set", Panic("no enough data"), self, dp.storage, <<>>)
        ELSE
        LET a1 == AddUsize(low_u64(U256FromBytes(head.v)), U64FromNat(4))
            index == a1.sum
            a2 == AddUsize(index, U64FromNat(32))
            lenw == SliceGet(data, index, a2.sum)
        IN  IF checked /\ (a1.overflow \/ a2.overflow)
            THEN Outcome("string_set", Panic("attempt to add with overflow"),
                         self, dp.storage, <<>>)
            ELSE IF ~lenw.some
            THEN Outcome("string_set", Panic("no enough data"), self, dp.storage, <<>>)
            ELSE
            LET length == low_u64(U256FromBytes(lenw.v))
                index2 == a2.sum
                a3 == AddUsize(index2, length)
                payload == SliceGet(data, index2, a3.sum)
            IN  IF checked /\ a3.overflow
                THEN Outcome("string_set", Panic("attempt to add with overflow"),
                             self, dp.storage, <<>>)
                ELSE IF ~payload.some
                THEN Outcome("string_set", Panic("no enough data"), self, dp.storage, <<>>)
                ELSE IF ~IsUtf8(payload.v)
                THEN Outcome("string_set", Panic("called unwrap on an Err value"),
                             self, dp.storage, <<>>)
                ELSE
                LET r == ScalarSetBytes(self.string_value, dp, params.code_address, payload.v)
                IN  IF ~r.ok
                    THEN Outcome("string_set", Err(r.err), self, r.storage, r.trace)
                    ELSE Outcome("string_set", Normal(<<>>, 100, <<>>), self, r.storage, r.trace)
\* Fault: string_get writing the limbs of the length word least
\* significant first.
string_get_unreversed(self, params, dp) ==
    LET self1 == [self EXCEPT !.output = Resize(@, 0)]
        r == ScalarGetBytes(self.string_value, dp, params.code_address)
    IN  IF ~r.ok
        THEN Outcome("string_get", Err(r.err), self1, dp.storage, r.trace)
        ELSE
        LET str == r.v
            head == SerializeLimbsRev(U256FromUsize(U64FromNat(32)))
            len == SerializeU64BE(U64FromNat(Len(str))) \o Zeros(24)
            pad == Zeros(32 - (Len(str) % 32))
            self2 == [self1 EXCEPT !.output = @ \o head \o len \o str \o pad]
        IN  Outcome("string_get", Normal(self2.output, 100, <<>>), self2, dp.storage, r.trace)
\* Fault: string_get without the resize(0, 0) that empties the output.
string_get_appending(self, params, dp) ==
    LET self1 == self
        r == ScalarGetBytes(self.string_value, dp, params.code_address)
    IN  IF ~r.ok
        THEN Outcome("string_get", Err(r.err), self1, dp.storage, r.trace)
        ELSE
        LET str == r.v
            head == SerializeLimbsRev(U256FromUsize(U64FromNat(32)))
            len == SerializeLimbsRev(U256FromUsize(U64FromNat(Len(str))))
            pad == Zeros(32 - (Len(str) % 32))
            self2 == [self1 EXCEPT !.output = @ \o head \o len \o str \o pad]
        IN  Outcome("string_get", Normal(self2.output, 100, <<>>), self2, dp.storage, r.trace)

string_get(self, params, dp) ==
    LET self1 == [self EXCEPT !.output = Resize(@, 0)]
        r == ScalarGetBytes(self.string_value, dp, params.code_address)
    IN  IF ~r.ok
        THEN Outcome("string_get", Err(r.err), self1, dp.storage, r.trace)
        ELSE
        LET str == r.v
            head == SerializeLimbsRev(U256FromUsize(U64FromNat(32)))
            len == SerializeLimbsRev(U256FromUsize(U64FromNat(Len(str))))
            pad == Zeros(32 - (Len(str) % 32))
            self2 == [self1 EXCEPT !.output = @ \o head \o len \o str \o pad]
        IN  Outcome("string_get", Normal(self2.output, 100, <<>>), self2, dp.storage, r.trace)
\* Fault: array_set reading the value without advancing pilot past the
\* index word.
array_set_same_window(self, params, dp) ==
    LET data == params.data
        pilot == 4
        a == DataGet(data, pilot, pilot + 32)
        b == DataGet(data, pilot, pilot + 32)
    IN  IF ~a.some \/ ~b.some
        THEN Outcome("array_set", Panic("no enough data"), self, dp.storage, <<>>)
        ELSE
        LET index == low_u64(U256FromBytes(a.v))
            value == U256FromBytes(b.v)
            r == ArraySet(self.array_value, dp, params.code_address, index, value)
        IN  IF ~r.ok
            THEN Outcome("array_set", Err(r.err), self, r.storage, r.trace)
            ELSE Outcome("array_set", Normal(<<>>, 100, <<>>), self, r.storage, r.trace)
\* Fault: array_set taking the index from the second 64-bit limb of the
\* index word instead of the lowest.
array_set_second_limb(self, params, dp) ==
    LET data == params.data
        pilot == 4
        a == DataGet(data, pilot, pilot + 32)
        b == DataGet(data, pilot + 32, pilot + 32 + 32)
    IN  IF ~a.some \/ ~b.some
        THEN Outcome("array_set", Panic("no enough data"), self, dp.storage, <<>>)
        ELSE
        LET index == U256FromBytes(a.v)[2]
            value == U256FromBytes(b.v)
            r == ArraySet(self.array_value, dp, params.code_address, index, value)
        IN  IF ~r.ok
            THEN Outcome("array_set", Err(r.err), self, r.storage, r.trace)
            ELSE Outcome("array_set", Normal(<<>>, 100, <<>>), self, r.storage, r.trace)

array_set(self, params, dp) ==
    LET data == params.data
        pilot == 4
        a == DataGet(data, pilot, pilot + 32)
        b == DataGet(data, pilot + 32, pilot + 32 + 32)
    IN  IF ~a.some \/ ~b.some
        THEN Outcome("array_set", Panic("no enough data"), self, dp.storage, <<>>)
        ELSE
        LET index == low_u64(U256FromBytes(a.v))
            value == U256FromBytes(b.v)
            r == ArraySet(self.array_value, dp, params.code_address, index, value)
        IN  IF ~r.ok
            THEN Outcome("array_set", Err(r.err), self, r.storage, r.trace)
            ELSE Outcome("array_set", Normal(<<>>, 100, <<>>), self, r.storage, r.trace)
\* Fault: array_get answering zero when the storage capability fails.
array_get_masking(self, params, dp) ==
    LET data == params.data
        a == DataGet(data, 4, 4 + 32)
    IN  IF ~a.some
        THEN Outcome("array_get", Panic("no enough data"), self, dp.storage, <<>>)
        ELSE
        LET index == low_u64(U256FromBytes(a.v))
            r == ArrayGet(self.array_value, dp, params.code_address, index)
            v == IF r.ok THEN r.v ELSE U256Zero
            self1 == [self EXCEPT !.output = @ \o SerializeLimbsRev(v)]
        IN  Outcome("array_get", Normal(self1.output, 100, <<>>), self1,
                    dp.storage, r.trace)

array_get(self, params, dp) ==
    LET data == params.data
        a == DataGet(data, 4, 4 + 32)
    IN  IF ~a.some
        THEN Outcome("array_get", Panic("no enough data"), self, dp.storage, <<>>)
        ELSE
        LET index == low_u64(U256FromBytes(a.v))
            r == ArrayGet(self.array_value, dp, params.code_address, index)
        IN  IF ~r.ok
            THEN Outcome("array_get", Err(r.err), self, dp.storage, r.trace)
            ELSE
            LET self1 == [self EXCEPT !.output = @ \o SerializeLimbsRev(r.v)]
            IN  Outcome("array_get", Normal(self1.output, 100, <<>>), self1,
                        dp.storage, r.trace)
\* Fault: map_set truncating the key to its low 64 bits, as array_set does
\* with its index.
map_set_truncated_key(self, params, dp) ==
    LET data == params.data
        pilot == 4
        a == DataGet(data, pilot, pilot + 32)
        b == DataGet(data, pilot + 32, pilot + 32 + 32)
    IN  IF ~a.some \/ ~b.some
        THEN Outcome("map_set", Panic("no enough data"), self, dp.storage, <<>>)
        ELSE
        LET key == U256FromUsize(low_u64(U256FromBytes(a.v)))
            value == U256FromBytes(b.v)
            r == MapSet(self.map_value, dp, params.code_address, key, value)
        IN  IF ~r.ok
            THEN Outcome("map_set", Err(r.err), self, r.storage, r.trace)
            ELSE Outcome("map_set", Normal(<<>>, 100, <<>>), self, r.storage, r.trace)
\* Fault: map_set returning the stored value as its payload.
map_set_echo(self, params, dp) ==
    LET data == params.data
        pilot == 4
        a == DataGet(data, pilot, pilot + 32)
        b == DataGet(data, pilot + 32, pilot + 32 + 32)
    IN  IF ~a.some \/ ~b.some
        THEN Outcome("map_set", Panic("no enough data"), self, dp.storage, <<>>)
        ELSE
        LET key == U256FromBytes(a.v)
            value == U256FromBytes(b.v)
            r == MapSet(self.map_value, dp, params.code_address, key, value)
        IN  IF ~r.ok
            THEN Outcome("map_set", Err(r.err), self, r.storage, r.trace)
            ELSE Outcome("map_set", Normal(to_big_endian(value), 100, <<>>), self,
                         r.storage, r.trace)

map_set(self, params, dp) ==
    LET data == params.data
        pilot == 4
        a == DataGet(data, pilot, pilot + 32)
        b == DataGet(data, pilot + 32, pilot + 32 + 32)
    IN  IF ~a.some \/ ~b.some
        THEN Outcome("map_set", Panic("no enough data"), self, dp.storage, <<>>)
        ELSE
        LET key == U256FromBytes(a.v)
            value == U256FromBytes(b.v)
            r == MapSet(self.map_value, dp, params.code_address, key, value)
        IN  IF ~r.ok
            THEN Outcome("map_set", Err(r.err), self, r.storage, r.trace)
            ELSE Outcome("map_set", Normal(<<>>, 100, <<>>), self, r.storage, r.trace)
\* Fault: map_get emptying the output buffer before it writes the word.
map_get_clearing(self, params, dp) ==
    LET data == params.data
        a == DataGet(data, 4, 4 + 32)
    IN  IF ~a.some
        THEN Outcome("map_get", Panic("no enough data"), self, dp.storage, <<>>)
        ELSE
        LET key == U256FromBytes(a.v)
            r == MapGet(self.map_value, dp, params.code_address, key)
        IN  IF ~r.ok
            THEN Outcome("map_get", Err(r.err), self, dp.storage, r.trace)
            ELSE
            LET self1 == [self EXCEPT !.output = SerializeLimbsRev(r.v)]
            IN  Outcome("map_get", Normal(self1.output, 100, <<>>), self1,
                        dp.storage, r.trace)

map_get(self, params, dp) ==
    LET data == params.data
        a == DataGet(data, 4, 4 + 32)
    IN  IF ~a.some
        THEN Outcome("map_get", Panic("no enough data"), self, dp.storage, <<>>)
        ELSE
        LET key == U256FromBytes(a.v)
            r == MapGet(self.map_value, dp, params.code_address, key)
        IN  IF ~r.ok
            THEN Outcome("map_get", Err(r.err), self, dp.storage, r.trace)
            ELSE
            LET self1 == [self EXCEPT !.output = @ \o SerializeLimbsRev(r.v)]
            IN  Outcome("map_get", Normal(self1.output, 100, <<>>), self1,
                        dp.storage, r.trace)

\* method_tools::extract_to_u32: the first four bytes as a big-endian u32.
extract_to_u32(data) ==
    LET b == DataGet(data, 0, 4)
    IN  IF ~b.some
        THEN [ok |-> FALSE, err |-> "insufficient call data"]
        ELSE [ok |-> TRUE, v |-> <<b.v[1] * 256 + b.v[2], b.v[3] * 256 + b.v[4]>>]

\* The function selectors of the dispatch table, as <<high half, low half>>.
SigInit      == <<0, 0>>
SigUintSet   == <<43665, 21566>>
SigUintGet   == <<33579, 17792>>
SigStringSet == <<51553, 22384>>
SigStringGet == <<58131, 23828>>
SigArraySet  == <<4491, 8860>>
SigArrayGet  == <<6154, 19391>>
SigMapSet    == <<43762, 29045>>
SigMapGet    == <<50535, 57334>>

\* Fault: exec letting a selector outside the table fall through to init.
exec_fallthrough(self, params, dp, checked) ==
    LET sig == extract_to_u32(params.data)
    IN  IF ~sig.ok
        THEN Outcome("none", Err(sig.err), self, dp.storage, <<>>)
        ELSE LET signature == sig.v
             IN  CASE signature = SigInit      -> init(self, params, dp)
                   [] signature = SigUintSet   -> uint_set(self, params, dp)
                   [] signature = SigUintGet   -> uint_get(self, params, dp)
                   [] signature = SigStringSet -> string_set(self, params, dp, checked)
                   [] signature = SigStringGet -> string_get(self, params, dp)
                   [] signature = SigArraySet  -> array_set(self, params, dp)
                   [] signature = SigArrayGet  -> array_get(self, params, dp)
                   [] signature = SigMapSet    -> map_set(self, params, dp)
                   [] signature = SigMapGet    -> map_get(self, params, dp)
                   [] OTHER -> init(self, params, dp)
\* Fault: exec taking selector zero when extract_to_u32 fails.
exec_default_selector(self, params, dp, checked) ==
    LET sig == extract_to_u32(params.data)
        signature == IF sig.ok THEN sig.v ELSE SigInit
    IN  CASE signature = SigInit      -> init(self, params, dp)
          [] signature = SigUintSet   -> uint_set(self, params, dp)
          [] signature = SigUintGet   -> uint_get(self, params, dp)
          [] signature = SigStringSet -> string_set(self, params, dp, checked)
          [] signature = SigStringGet -> string_get(self, params, dp)
          [] signature = SigArraySet  -> array_set(self, params, dp)
          [] signature = SigArrayGet  -> array_get(self, params, dp)
          [] signature = SigMapSet    -> map_set(self, params, dp)
          [] signature = SigMapGet    -> map_get(self, params, dp)
          [] OTHER -> Outcome("none", Err("Internal: out of gas"),
                              self, dp.storage, <<>>)

\* Contract::exec.
exec(self, params, dp, checked) ==
    LET sig == extract_to_u32(params.data)
    IN  IF ~sig.ok
        THEN Outcome("none", Err(sig.err), self, dp.storage, <<>>)
        ELSE LET signature == sig.v
             IN  CASE signature = SigInit      -> init(self, params, dp)
                   [] signature = SigUintSet   -> uint_set(self, params, dp)
                   [] signature = SigUintGet   -> uint_get(self, params, dp)
                   [] signature = SigStringSet -> string_set(self, params, dp, checked)
                   [] signature = SigStringGet -> string_get(self, params, dp)
                   [] signature = SigArraySet  -> array_set(self, params, dp)
                   [] signature = SigArrayGet  -> array_get(self, params, dp)
                   [] signature = SigMapSet    -> map_set(self, params, dp)
                   [] signature = SigMapGet    -> map_get(self, params, dp)
                   [] OTHER -> Outcome("none", Err("Internal: out of gas"),
                                       self, dp.storage, <<>>)

-----------------------------------------------------------------------------
(* Call data, built as the callers of the contract build it *)

\* serialize_into::<_, _, _, BigEndian> of a u32 selector.
Selector(sig) ==
    <<sig[1] \div 256, sig[1] % 256, sig[2] \div 256, sig[2] % 256>>

\* A small number as one 32-byte big-endian argument word.
Word(n) == SerializeLimbsRev(U256FromUsize(U64FromNat(n)))

\* The value of the repository's test, 0x1234.
W1234 == Word(4660)

\* A value whose 32 bytes all differ.
WBig == [i \in 1..32 |-> 127 + i]

\* The word 2^64 + 1: its low 64 bits are those of Word(1).
WHigh1 == [i \in 1..32 |-> IF i = 24 \/ i = 32 THEN 1 ELSE 0]

\* The word 2^64 + 32: its low 64 bits are those of Word(32).
WHigh32 == [i \in 1..32 |-> IF i = 24 THEN 1 ELSE IF i = 32 THEN 32 ELSE 0]

\* The word 2^64 - 4: adding 4 to it exceeds a 64-bit usize.
WWrap == [i \in 1..32 |-> IF i <= 24 THEN 0 ELSE IF i = 32 THEN 252 ELSE 255]

ValueWords == {W1234, WBig}

KeyWords == {Word(1), Word(2), WHigh1}

\* 32 and 33 bytes of ASCII text.
Text(n) == [i \in 1..n |-> 96 + ((i - 1) % 26) + 1]

\* Valid UTF-8 strings: empty, "A", U+00E9, and texts around a word boundary.
Strings == {<<>>, <<65>>, <<195, 169>>, Text(32), Text(33)}

\* Byte strings that are not UTF-8: a lone 0xFF, a cut two-byte sequence,
\* an overlong encoding after valid text.
NotUtf8 == {<<255>>, <<195>>, <<65, 192, 128>>}

\* The dynamic layout of one string argument: offset word, length word,
\* payload, zero padding to a multiple of 32 bytes.
AbiString(s) ==
    Word(32) \o Word(Len(s)) \o s \o Zeros((32 - (Len(s) % 32)) % 32)

Addresses == {"0x4b5ae4567ad5d9fb92bc9afd6a657e6fa13a2523",
              "0x00000000000000000000000000000000000a0001"}

InitData == {Selector(SigInit), Selector(SigInit) \o <<255>>, Selector(SigInit) \o WBig}

UintSetData ==
    {Selector(SigUintSet) \o w : w \in ValueWords}
    \cup {Selector(SigUintSet) \o <<0, 0>>}

UintGetData == {Selector(SigUintGet)}

StringSetData ==
    {Selector(SigStringSet) \o AbiString(s) : s \in Strings \cup NotUtf8}
    \cup {Selector(SigStringSet) \o <<0, 0>>,
          Selector(SigStringSet) \o Word(64) \o Word(1) \o <<65>>,
          Selector(SigStringSet) \o Word(32) \o Word(5) \o <<65>>}

\* set-string with an offset or length word of 2^64 or more, or an offset
\* near the top of the machine word.
StringSetWideData ==
    {Selector(SigStringSet) \o WHigh32 \o Word(1) \o <<65>> \o Zeros(31),
     Selector(SigStringSet) \o Word(32) \o WHigh1 \o <<65>> \o Zeros(31),
     Selector(SigStringSet) \o WWrap \o Word(1) \o <<65>> \o Zeros(31)}

StringGetData == {Selector(SigStringGet)}

ArraySetData ==
    {Selector(SigArraySet) \o i \o v : i \in KeyWords, v \in ValueWords}
    \cup {Selector(SigArraySet) \o <<0, 0>>, Selector(SigArraySet) \o Word(1)}

ArrayGetData ==
    {Selector(SigArrayGet) \o i : i \in KeyWords}
    \cup {Selector(SigArrayGet) \o <<0, 0>>}

MapSetData ==
    {Selector(SigMapSet) \o k \o v : k \in KeyWords, v \in ValueWords}
    \cup {Selector(SigMapSet) \o <<0, 0>>, Selector(SigMapSet) \o Word(1)}

MapGetData ==
    {Selector(SigMapGet) \o k : k \in KeyWords}
    \cup {Selector(SigMapGet) \o <<0, 0>>}

\* Selectors outside the table: 0xdeadbeef, and 0xaa91543f next to set-uint.
UnknownData ==
    {<<222, 173, 190, 239>>, <<222, 173, 190, 239>> \o W1234,
     <<170, 145, 84, 63>> \o W1234}

\* Fewer than four bytes.
ShortData == {<<>>, <<0>>, <<0, 0>>, <<0, 0, 0>>, <<170, 145, 84>>}

-----------------------------------------------------------------------------------------------------------------------------------------------------
(* The state machine: the executor resolves a new contract instance or      *)
(* keeps the one of the previous call, and runs exec on it.  `last` records *)
(* the most recent exec: the instance it ran on, its parameters, whether    *)
(* the storage capability was failing, its result and its storage calls.    *)
(* `session` is the history of a session (see SessionSpec): the call data   *)
(* it has executed and the points where it took a new instance.             *)

NoCall ==
    [handler |-> "start", self |-> create, code_address |-> "", data |-> <<>>,
     fail |-> FALSE, before |-> <<>>, res |-> [kind |-> "None"], trace |-> <<>>]

Init ==
    /\ contract = create
    /\ storage = <<>>
    /\ last = NoCall
    /\ calls = 0
    /\ session = <<>>

\* factory.new_contract(native_addr): the next call runs on a new instance.
Reset ==
    /\ last.res.kind # "Panic"
    /\ contract # create
    /\ contract' = create
    /\ UNCHANGED <<storage, last, calls>>

NewContract == Reset /\ UNCHANGED session

\* contract.exec(&params, &context, &mut data_provider).  checked says
\* whether the build panics on usize overflow (debug) or wraps (release).
Exec(addr, data, fail, checked) ==
    /\ last.res.kind # "Panic"
    /\ LET params == [data |-> data, code_address |-> addr]
           dp == [storage |-> storage, fail |-> fail]
       IN  \E o \in {exec(contract, params, dp, checked)} :
               /\ contract' = o.contract
               /\ storage' = o.storage
               /\ last' = [handler |-> o.handler, self |-> contract,
                           code_address |-> addr, data |-> data, fail |-> fail,
                           before |-> storage, res |-> o.res, trace |-> o.trace]
    /\ calls' = calls + 1

Call(addr, data, fail, checked) ==
    /\ calls < MaxCalls
    /\ Exec(addr, data, fail, checked)
    /\ UNCHANGED session

\* Calls with the data of Data on a working storage capability, and calls
\* with the data of FailData on one that reports an error.
CallWith(Data, FailData, checked) ==
    \/ \E addr \in Addresses, data \in Data : Call(addr, data, FALSE, checked)
    \/ \E addr \in Addresses, data \in FailData : Call(addr, data, TRUE, checked)

\* Only string_set adds usize values that can overflow; the other handlers
\* behave the same in both builds.
InitCall == CallWith(InitData, {}, TRUE)
UintSetCall == CallWith(UintSetData, {Selector(SigUintSet) \o W1234}, TRUE)
UintGetCall == CallWith(UintGetData, UintGetData, TRUE)
StringSetCall ==
    \E checked \in BOOLEAN :
        CallWith(StringSetData, {Selector(SigStringSet) \o AbiString(<<65>>)}, checked)
StringSetWideCall == \E checked \in BOOLEAN : CallWith(StringSetWideData, {}, checked)
StringGetCall == CallWith(StringGetData, StringGetData, TRUE)
ArraySetCall == CallWith(ArraySetData, {Selector(SigArraySet) \o Word(1) \o W1234}, TRUE)
ArrayGetCall == CallWith(ArrayGetData, {Selector(SigArrayGet) \o Word(1)}, TRUE)
MapSetCall == CallWith(MapSetData, {Selector(SigMapSet) \o Word(1) \o W1234}, TRUE)
MapGetCall == CallWith(MapGetData, {Selector(SigMapGet) \o Word(1)}, TRUE)
UnknownCall == CallWith(UnknownData, {}, TRUE)
ShortCall == CallWith(ShortData, {}, TRUE)

Next ==
    \/ NewContract
    \/ InitCall
    \/ UintSetCall
    \/ UintGetCall
    \/ StringSetCall
    \/ StringSetWideCall
    \/ StringGetCall
    \/ ArraySetCall
    \/ ArrayGetCall
    \/ MapSetCall
    \/ MapGetCall
    \/ UnknownCall
    \/ ShortCall

Spec == Init /\ [][Next]_vars

\* The contract under set operations only.
SetsNext ==
    \/ UintSetCall
    \/ StringSetCall
    \/ ArraySetCall
    \/ MapSetCall

SetsSpec == Init /\ [][SetsNext]_vars

\* A session: one caller address works through a sequence of calls, on the
\* instance of the previous call or on a new one, with a working storage
\* capability; `session` keeps the history.
SessionAddress == "0x4b5ae4567ad5d9fb92bc9afd6a657e6fa13a2523"

SessionCall(Data) ==
    /\ calls < MaxSessionCalls
    /\ \E data \in Data :
          /\ Exec(SessionAddress, data, FALSE, TRUE)
          /\ session' = Append(session, [new |-> FALSE, data |-> data])

SessionNewContract ==
    /\ calls < MaxSessionCalls
    /\ Reset
    /\ session' = Append(session, [new |-> TRUE, data |-> <<>>])

SessionUintSet == SessionCall({Selector(SigUintSet) \o w : w \in ValueWords})
SessionUintGet == SessionCall(UintGetData)
SessionStringSet ==
    SessionCall({Selector(SigStringSet) \o AbiString(s) : s \in {<<>>, <<65>>, Text(33)}})
SessionStringGet == SessionCall(StringGetData)
SessionArraySet ==
    SessionCall({Selector(SigArraySet) \o Word(1) \o W1234,
                 Selector(SigArraySet) \o Word(2) \o WBig,
                 Selector(SigArraySet) \o WHigh1 \o WBig})
SessionArrayGet == SessionCall({Selector(SigArrayGet) \o j : j \in KeyWords})
SessionMapSet ==
    SessionCall({Selector(SigMapSet) \o Word(1) \o WBig})
SessionMapGet == SessionCall({Selector(SigMapGet) \o Word(1)})

\* The set operations of one caller address with a working storage
\* capability: the fields of one contract account.
FieldsCall(Data) ==
    /\ calls < MaxCalls
    /\ \E data \in Data : Exec(SessionAddress, data, FALSE, TRUE)
    /\ UNCHANGED session

FieldsUintSet == FieldsCall(UintSetData)
FieldsStringSet == FieldsCall(StringSetData)
FieldsArraySet == FieldsCall(ArraySetData)
FieldsMapSet == FieldsCall(MapSetData)

FieldsNext == FieldsUintSet \/ FieldsStringSet \/ FieldsArraySet \/ FieldsMapSet

FieldsSpec == Init /\ [][FieldsNext]_vars

SessionNext ==
    \/ SessionNewContract
    \/ SessionUintSet
    \/ SessionUintGet
    \/ SessionStringSet
    \/ SessionStringGet
    \/ SessionArraySet
    \/ SessionArrayGet
    \/ SessionMapSet
    \/ SessionMapGet

SessionSpec == Init /\ [][SessionNext]_vars

-----------------------------------------------------------------------------
(* Properties *)

\* The call recorded in a state: its handler, outcome and instance.
Ran(c, h) == c.handler = h
Ok(c) == c.res.kind = "Normal"
OnFresh(c) == c.self = create

\* The bytes lo..hi-1 (counted from 0, as in the source) of a call's data.
Bytes(c, lo, hi) == SubSeq(c.data, lo + 1, hi)

\* What a get call with the given data returns on a new instance, under
\* address addr, from storage st with a working storage capability.
Query(st, addr, data) ==
    exec(create, [data |-> data, code_address |-> addr],
         [storage |-> st, fail |-> FALSE], TRUE).res

\* C1: a successful set-uint of the word v in bytes 4..36, followed by
\* get-uint under the same address on a new instance, returns exactly the
\* 32 bytes of v.
C1_UintRoundTrip ==
    [][(/\ Ran(last, "uint_set") /\ Ok(last) /\ Len(last.data) >= 36
        /\ Ran(last', "uint_get") /\ Ok(last') /\ OnFresh(last')
        /\ last'.code_address = last.code_address)
       => last'.res.data = Bytes(last, 4, 36)]_vars

\* C1 happens: get-uint on a new instance returned the 32 distinct bytes
\* that a set-uint stored under that address.
C1_Witness ==
    /\ Ran(last, "uint_get") /\ Ok(last) /\ OnFresh(last)
    /\ last.res.data = WBig

\* C2: a successful set-string of a valid UTF-8 string s of L bytes,
\* followed by get-string under the same address on a new instance, returns
\* the word 32, the word L and then the L bytes of s.
C2_StringRoundTrip ==
    [][\A s \in Strings :
        (/\ Ran(last, "string_set") /\ Ok(last)
         /\ last.data = Selector(SigStringSet) \o AbiString(s)
         /\ Ran(last', "string_get") /\ Ok(last') /\ OnFresh(last')
         /\ last'.code_address = last.code_address)
        => /\ Len(last'.res.data) >= 64 + Len(s)
           /\ SubSeq(last'.res.data, 1, 32) = Zeros(31) \o <<32>>
           /\ SubSeq(last'.res.data, 33, 64) = Zeros(31) \o <<Len(s)>>
           /\ SubSeq(last'.res.data, 65, 64 + Len(s)) = s]_vars

\* C2 happens for a string of exactly 32 bytes: get-string returned it.
C2_Witness ==
    /\ Ran(last, "string_get") /\ Ok(last) /\ OnFresh(last)
    /\ Len(last.res.data) >= 96
    /\ SubSeq(last.res.data, 33, 64) = Zeros(31) \o <<32>>
    /\ SubSeq(last.res.data, 65, 96) = Text(32)

\* The array index of a call: the low 64 bits of the index word in bytes
\* 4..36, least significant byte first.
IndexOf(c) == Reverse(Bytes(c, 28, 36))

\* C3: set-array(index, value) followed by get-array(index) under the same
\* address on a new instance returns the 32 bytes of value; get-array of
\* an index never set under the address returns 32 zero bytes; and
\* set-array at one index leaves what get-array returns at every other
\* index unchanged.
C3_ArrayRoundTrip ==
    [][/\ (/\ Ran(last, "array_set") /\ Ok(last) /\ Len(last.data) >= 68
           /\ Ran(last', "array_get") /\ Ok(last') /\ OnFresh(last')
           /\ last'.code_address = last.code_address
           /\ Bytes(last', 4, 36) = Bytes(last, 4, 36))
          => last'.res.data = Bytes(last, 36, 68)
       /\ (/\ Ran(last', "array_get") /\ Ok(last') /\ OnFresh(last')
           /\ <<last'.code_address, 2, IndexOf(last')>> \notin DOMAIN last'.before)
          => last'.res.data = Zeros(32)
       /\ (Ran(last', "array_set") /\ Len(last'.data) >= 36)
          => \A j \in KeyWords :
                Reverse(SubSeq(j, 25, 32)) # IndexOf(last')
                => Query(storage', last'.code_address, Selector(SigArrayGet) \o j)
                   = Query(last'.before, last'.code_address, Selector(SigArrayGet) \o j)
      ]_vars

\* C3 happens: get-array on a new instance returned the value that a
\* set-array stored at that index.
C3_Witness ==
    /\ Ran(last, "array_get") /\ Ok(last) /\ OnFresh(last)
    /\ last.res.data = WBig
    /\ <<last.code_address, 2, IndexOf(last)>> \in DOMAIN storage

\* C4: set-map(key, value) followed by get-map(key) under the same address
\* on a new instance returns the 32 bytes of value; get-map of a key never
\* set under the address returns 32 zero bytes; and set-map of one key
\* leaves what get-map returns for every other 256-bit key unchanged.
C4_MapRoundTrip ==
    [][/\ (/\ Ran(last, "map_set") /\ Ok(last) /\ Len(last.data) >= 68
           /\ Ran(last', "map_get") /\ Ok(last') /\ OnFresh(last')
           /\ last'.code_address = last.code_address
           /\ Bytes(last', 4, 36) = Bytes(last, 4, 36))
          => last'.res.data = Bytes(last, 36, 68)
       /\ (/\ Ran(last', "map_get") /\ Ok(last') /\ OnFresh(last')
           /\ <<last'.code_address, 3, Bytes(last', 4, 36)>> \notin DOMAIN last'.before)
          => last'.res.data = Zeros(32)
       /\ (Ran(last', "map_set") /\ Len(last'.data) >= 36)
          => \A k2 \in KeyWords :
                k2 # Bytes(last', 4, 36)
                => Query(storage', last'.code_address, Selector(SigMapGet) \o k2)
                   = Query(last'.before, last'.code_address, Selector(SigMapGet) \o k2)
      ]_vars

\* C4 happens: get-map of the key 2^64 + 1 on a new instance returned the
\* value that a set-map stored under that key.
C4_Witness ==
    /\ Ran(last, "map_get") /\ Ok(last) /\ OnFresh(last)
    /\ Bytes(last, 4, 36) = WHigh1
    /\ last.res.data = WBig

\* The get calls used to observe what an address holds.
GetQueries ==
    UintGetData \cup StringGetData
    \cup {Selector(SigArrayGet) \o j : j \in KeyWords}
    \cup {Selector(SigMapGet) \o k : k \in KeyWords}

SetHandlers == {"uint_set", "string_set", "array_set", "map_set"}

\* C5: after a set operation executed under address a, every get under a
\* different address b returns what it returned before the call, and zero
\* (for a string: length zero) when nothing was ever written under b.
C5_AddressIsolation ==
    last.handler \in SetHandlers
    => \A b \in Addresses \ {last.code_address} :
         \A q \in GetQueries :
           LET r == Query(storage, b, q)
           IN  /\ r = Query(last.before, b, q)
               /\ (\A k \in DOMAIN storage : k[1] # b)
                  => /\ r.kind = "Normal"
                     /\ IF q \in StringGetData
                        THEN SubSeq(r.data, 33, 64) = Zeros(32)
                        ELSE r.data = Zeros(32)

\* C5 happens: a set-uint succeeded under one address while another
\* address holds a different value in the same slot.
C5_Witness ==
    /\ Ran(last, "uint_set") /\ Ok(last)
    /\ \E b \in Addresses \ {last.code_address} :
          /\ <<b, 0, <<>>>> \in DOMAIN storage
          /\ <<last.code_address, 0, <<>>>> \in DOMAIN storage
          /\ storage[<<b, 0, <<>>>>] # storage[<<last.code_address, 0, <<>>>>]
          /\ Query(storage, b, Selector(SigUintGet)).data = storage[<<b, 0, <<>>>>]

\* The end of the fixed argument window of each handler that has one.
Window(h) ==
    CASE h = "uint_set"   -> 36
      [] h = "string_set" -> 36
      [] h = "array_set"  -> 68
      [] h = "array_get"  -> 36
      [] h = "map_set"    -> 68
      [] h = "map_get"    -> 36
      [] OTHER -> 0

\* C6: exec on call data with a valid selector that ends before the
\* handler's fixed argument window ends returns an error as the Err value of
\* exec and leaves storage unchanged.
C6_TruncatedIsTypedError ==
    Len(last.data) < Window(last.handler)
    => /\ last.res.kind = "Err"
       /\ storage = last.before

\* The nine selectors of the dispatch table, as bytes.
TableSelectors ==
    {<<0, 0, 0, 0>>, <<170, 145, 84, 62>>, <<131, 43, 69, 128>>,
     <<201, 97, 87, 112>>, <<227, 19, 93, 20>>, <<17, 139, 34, 156>>,
     <<24, 10, 75, 191>>, <<170, 242, 113, 117>>, <<197, 103, 223, 246>>}

\* C7: for a selector outside the table exec returns the error
\* NativeError::Internal whatever follows the selector, invokes no handler
\* and makes no call on the storage capability.
C7_UnknownSelector ==
    (Len(last.data) >= 4 /\ SubSeq(last.data, 1, 4) \notin TableSelectors)
    => /\ last.res = Err("Internal: out of gas")
       /\ last.handler = "none"
       /\ last.trace = <<>>
       /\ storage = last.before

\* C7 happens: 0xdeadbeef followed by an argument word was executed on a
\* storage that holds data.
C7_Witness ==
    /\ last.data = <<222, 173, 190, 239>> \o W1234
    /\ last.res.kind = "Err"
    /\ storage # <<>>

\* C8: exec with selector 0x00000000 succeeds with an empty payload, quota
\* cost 100 and no logs, whatever follows the selector and whatever the
\* storage holds, and leaves storage unchanged.
C8_InitAlwaysSucceeds ==
    (Len(last.data) >= 4 /\ SubSeq(last.data, 1, 4) = <<0, 0, 0, 0>>)
    => /\ last.res = [kind |-> "Normal", data |-> <<>>, quota |-> 100, logs |-> <<>>]
       /\ storage = last.before

\* C8 happens: selector zero followed by 32 bytes was executed on a storage
\* that holds data.
C8_Witness ==
    /\ last.data = <<0, 0, 0, 0>> \o WBig
    /\ last.res.kind = "Normal"
    /\ storage # <<>>

\* C9: set-string whose in-bounds payload is not valid UTF-8 returns an
\* error as the Err value of exec, and the stored string is unchanged.
C9_InvalidUtf8IsTypedError ==
    (\E s \in NotUtf8 : last.data = Selector(SigStringSet) \o AbiString(s))
    => /\ last.res.kind = "Err"
       /\ storage = last.before
       /\ Query(storage, last.code_address, Selector(SigStringGet))
          = Query(last.before, last.code_address, Selector(SigStringGet))

\* C10: when the storage capability reports an error to a handler, exec
\* returns that error as its Err result, with no payload and no quota.
C10_StorageErrorPropagates ==
    (last.fail /\ last.trace # <<>>)
    => /\ last.res = [kind |-> "Err", err |-> StorageFailure]
       /\ storage = last.before

\* C10 happens: get-array ran on a failing storage capability.
C10_Witness ==
    /\ Ran(last, "array_get")
    /\ last.fail
    /\ Len(last.trace) = 1
    /\ last.res.kind = "Err"

\* C11: exec on call data of fewer than four bytes returns the decoding
\* error without invoking a handler (not even init when the bytes are zero)
\* and without a call on the storage capability.
C11_ShortDataIsDecodingError ==
    (last.handler # "start" /\ Len(last.data) < 4)
    => /\ last.res = [kind |-> "Err", err |-> "insufficient call data"]
       /\ last.handler = "none"
       /\ last.trace = <<>>
       /\ storage = last.before

\* C11 happens: three zero bytes were executed on a storage that holds data.
C11_Witness ==
    /\ last.data = <<0, 0, 0>>
    /\ last.res.kind = "Err"
    /\ storage # <<>>

GetHandlers == {"uint_get", "string_get", "array_get", "map_get"}

\* C12: every successful exec reports quota cost 100 and no logs; init and
\* the set operations return an empty payload; get-uint, get-array and
\* get-map on a new instance return exactly 32 bytes.
C12_ResultShape ==
    Ok(last)
    => /\ last.res.quota = 100
       /\ last.res.logs = <<>>
       /\ last.handler \in SetHandlers \cup {"init"} => last.res.data = <<>>
       /\ (last.handler \in {"uint_get", "array_get", "map_get"} /\ OnFresh(last))
          => Len(last.res.data) = 32

\* C12 happens: a set-map succeeded on a storage that already holds data.
C12_Witness ==
    /\ Ran(last, "map_set") /\ Ok(last)
    /\ last.before # <<>>
    /\ last.res.data = <<>>

\* The string stored under an address (empty when never set).
StoredString(st, addr) ==
    IF <<addr, 1, <<>>>> \in DOMAIN st THEN st[<<addr, 1, <<>>>>] ELSE <<>>

\* C13: get-string for a stored string of L bytes returns 64 + 32*ceil(L/32)
\* bytes: head word, length word, payload, and zero bytes up to the next
\* multiple of 32 (none when L is a multiple of 32).
C13_StringPadding ==
    (Ran(last, "string_get") /\ Ok(last))
    => LET L == Len(StoredString(last.before, last.code_address))
       IN  /\ Len(last.res.data) = 64 + 32 * ((L + 31) \div 32)
           /\ \A i \in (64 + L + 1)..Len(last.res.data) : last.res.data[i] = 0

\* The calls of the session with the given selector, as positions in the
\* history.
SessionCalls(sig) ==
    {i \in 1..Len(session) :
        ~session[i].new /\ SubSeq(session[i].data, 1, 4) = Selector(sig)}

Latest(S) == CHOOSE i \in S : \A j \in S : j <= i

\* The string a set-string call of the session carries: its call data is
\* selector, offset word 32, length word, payload.
StringOf(data) == SubSeq(data, 69, 68 + data[68])

\* C14: in a session of successful calls under one address, get-uint
\* returns the word of the most recent set-uint, and get-string returns the
\* head word, the length of the string of the most recent set-string, its
\* bytes, and only zero bytes (fewer than 33) after them: nothing of a
\* string set earlier remains.
C14_LastWriteWins ==
    /\ (Ran(last, "uint_get") /\ Ok(last) /\ SessionCalls(SigUintSet) # {})
       => last.res.data = SubSeq(session[Latest(SessionCalls(SigUintSet))].data, 5, 36)
    /\ (Ran(last, "string_get") /\ Ok(last) /\ SessionCalls(SigStringSet) # {})
       => LET s == StringOf(session[Latest(SessionCalls(SigStringSet))].data)
              d == last.res.data
          IN  /\ Len(d) >= 64 + Len(s)
              /\ Len(d) <= 64 + Len(s) + 32
              /\ SubSeq(d, 1, 64 + Len(s)) = Word(32) \o Word(Len(s)) \o s
              /\ \A i \in (64 + Len(s) + 1)..Len(d) : d[i] = 0

\* C14 happens: a 33-byte string was set, then "A", then get-string ran.
C14_Witness ==
    /\ Len(session) = 3
    /\ session[1].data = Selector(SigStringSet) \o AbiString(Text(33))
    /\ session[2].data = Selector(SigStringSet) \o AbiString(<<65>>)
    /\ Ran(last, "string_get") /\ Ok(last)
    /\ last.data = session[3].data

\* The word stored for the element a get-array or get-map call asks for
\* (32 zero bytes when never set), read from the storage before the call.
StoredWord(c) ==
    LET key == IF Ran(c, "array_get")
               THEN <<c.code_address, 2, IndexOf(c)>>
               ELSE <<c.code_address, 3, Bytes(c, 4, 36)>>
    IN  IF key \in DOMAIN c.before THEN c.before[key] ELSE Zeros(32)

\* The position in the history of the session's most recent call, and of
\* the point where the instance of that call was taken (0: the start).
LastCallAt == Latest({i \in 1..Len(session) : ~session[i].new})
InstanceAt == Latest({0} \cup {i \in 1..LastCallAt : session[i].new})

IsAppendingGet(data) ==
    SubSeq(data, 1, 4) \in {Selector(SigArrayGet), Selector(SigMapGet)}

\* C15: a successful get-array or get-map returns the output buffer the
\* instance held before the call followed by the 32 bytes of the requested
\* element; so when the instance has run nothing but k such calls since
\* it was taken, the k-th returns 32*k bytes ending in the requested value.
C15_GetAppendsToOutput ==
    (last.handler \in {"array_get", "map_get"} /\ Ok(last))
    => /\ last.res.data = last.self.output \o StoredWord(last)
       /\ contract \in {create, [last.self EXCEPT !.output = last.res.data]}
       /\ (\A i \in (InstanceAt + 1)..LastCallAt : IsAppendingGet(session[i].data))
          => /\ Len(last.res.data) = 32 * (LastCallAt - InstanceAt)
             /\ SubSeq(last.res.data, Len(last.res.data) - 31, Len(last.res.data))
                = StoredWord(last)

\* C15 happens: after a set-array of v, get-map(1) and then get-array of
\* that element on the same instance return 32 zero bytes followed by v.
C15_Witness ==
    /\ Ran(last, "array_get") /\ Ok(last)
    /\ Len(last.self.output) = 32
    /\ last.res.data = Zeros(32) \o WBig

\* C15 happens for k = 3: three get-array/get-map calls in a row.
C15_ThirdGet ==
    /\ last.handler \in {"array_get", "map_get"} /\ Ok(last)
    /\ LastCallAt = 3 /\ InstanceAt = 0
    /\ \A i \in 1..3 : IsAppendingGet(session[i].data)
    /\ Len(last.res.data) = 96

\* C16: whatever the instance's output buffer held before the call, a
\* successful get-uint or get-string returns the result a new instance
\* returns for the same storage and address, and leaves exactly that
\* payload in the buffer.
C16_GetClearsOutput ==
    (last.handler \in {"uint_get", "string_get"} /\ Ok(last))
    => /\ last.res = Query(last.before, last.code_address, last.data)
       /\ Ran(last, "uint_get") => Len(last.res.data) = 32
       /\ contract \in {create, [last.self EXCEPT !.output = last.res.data]}

\* C16 happens: get-string of a stored string ran on an instance whose
\* buffer held the 32 bytes of an earlier get-array or get-map.
C16_Witness ==
    /\ Ran(last, "string_get") /\ Ok(last)
    /\ Len(last.self.output) = 32
    /\ StoredString(last.before, last.code_address) # <<>>
    /\ Len(last.res.data) = 96

\* C16 happens for get-uint after two appending reads (64 bytes held).
C16_UintAfterTwoGets ==
    /\ Ran(last, "uint_get") /\ Ok(last)
    /\ Len(last.self.output) = 64

\* The low 64 bits of a 32-byte big-endian word: its last eight bytes.
LowBits(word) == SubSeq(word, 25, 32)

\* The set-array calls of the session whose index word has the given low
\* 64 bits.
ArraySetsAt(low) ==
    {i \in SessionCalls(SigArraySet) : LowBits(SubSeq(session[i].data, 5, 36)) = low}

\* C17: a successful get-array(j) returns the value of the most recent
\* set-array(i, v) of the session with i mod 2^64 = j mod 2^64, whatever
\* the upper 192 bits of i and j are, and zero when no set-array had such
\* an index: a set-array at an index with other low 64 bits has no effect
\* on it.
C17_IndexLowBits ==
    (Ran(last, "array_get") /\ Ok(last))
    => LET S == ArraySetsAt(LowBits(Bytes(last, 4, 36)))
           d == last.res.data
       IN  SubSeq(d, Len(d) - 31, Len(d))
           = IF S = {} THEN Zeros(32) ELSE SubSeq(session[Latest(S)].data, 37, 68)

\* C17 happens: set-array(1, v), then set-array(2, w), then get-array of
\* the index word 2^64 + 1 returns v.
C17_Witness ==
    /\ Len(session) = 3
    /\ session[1].data = Selector(SigArraySet) \o Word(1) \o W1234
    /\ session[2].data = Selector(SigArraySet) \o Word(2) \o WBig
    /\ session[3].data = Selector(SigArrayGet) \o WHigh1
    /\ Ran(last, "array_get") /\ Ok(last)
    /\ last.res.data = W1234

\* C17 happens in set-array too: a value set at the index word 2^64 + 1 is
\* what get-array(1) returns.
C17_SetTruncates ==
    /\ Len(session) = 2
    /\ session[1].data = Selector(SigArraySet) \o WHigh1 \o WBig
    /\ session[2].data = Selector(SigArrayGet) \o Word(1)
    /\ last.res.data = WBig

\* A 32-byte word below 2^16, and its value.  Call data is far shorter
\* than 2^16 bytes, so any other word points outside it.
IsSmall(w) == SubSeq(w, 1, 30) = Zeros(30)
SmallNat(w) == w[31] * 256 + w[32]

\* The offset or length field of a set-string call points outside the
\* argument bytes (the call data after the selector), computed on the full
\* 256-bit words without truncation or wrap-around.
StringFieldOutOfRange(data) ==
    LET args == Len(data) - 4
        ow == SubSeq(data, 5, 36)
    IN  \/ ~IsSmall(ow)
        \/ SmallNat(ow) + 32 > args
        \/ LET off == SmallNat(ow)
               lw == SubSeq(data, 4 + off + 1, 4 + off + 32)
           IN  \/ ~IsSmall(lw)
               \/ off + 32 + SmallNat(lw) > args

\* C18: set-string with an offset or length field pointing outside the
\* argument bytes fails with an error result and writes nothing to the
\* storage, also when the word is 2^64 or more with low 64 bits inside the
\* data and when adding to it exceeds the machine word.
C18_OutOfRangeRejected ==
    (Ran(last, "string_set") /\ Len(last.data) >= 36 /\ StringFieldOutOfRange(last.data))
    => /\ last.res.kind = "Err"
       /\ storage = last.before
       /\ \A i \in 1..Len(last.trace) : last.trace[i].op # "set"

\* set-string whose offset word is 2^64 + 32 succeeds and stores the
\* payload found at offset 32.
C18_HighOffsetAccepted ==
    /\ Ran(last, "string_set") /\ Ok(last)
    /\ Bytes(last, 4, 36) = WHigh32
    /\ StoredString(storage, last.code_address) = <<65>>

\* set-string whose length word is 2^64 + 1 succeeds and stores one byte.
C18_HighLengthAccepted ==
    /\ Ran(last, "string_set") /\ Ok(last)
    /\ Bytes(last, 36, 68) = WHigh1
    /\ StoredString(storage, last.code_address) = <<65>>

\* set-string whose offset word is 2^64 - 4 ends in a panic, in the build
\* that checks the addition and in the one that wraps.
C18_WrapPanics ==
    (Ran(last, "string_set") /\ Len(last.data) >= 36 /\ Bytes(last, 4, 36) = WWrap)
    => last.res.kind = "Panic"

\* C19: a get-uint, get-string, get-array or get-map call, whether it
\* succeeds, fails or panics, makes no write call on the storage capability
\* and leaves the storage as it was; so the same get on another new
\* instance returns the same result again.
C19_ReadsLeaveStorage ==
    last.handler \in GetHandlers
    => /\ storage = last.before
       /\ \A i \in 1..Len(last.trace) : last.trace[i].op = "get"
       /\ (Ok(last) /\ OnFresh(last))
          => Query(storage, last.code_address, last.data) = last.res

\* C19 happens: a get-uint read a value set before and returned it.
C19_Witness ==
    /\ Ran(last, "uint_get") /\ Ok(last)
    /\ last.res.data = WBig
    /\ Len(last.trace) = 1
    /\ storage = last.before

\* C19 happens for a failing read: the storage capability reported an
\* error to a get-map over a storage that holds data.
C19_FailingRead ==
    /\ Ran(last, "map_get") /\ last.res.kind = "Err"
    /\ last.before # <<>>
    /\ storage = last.before

\* The field a set handler writes, and the get queries of a field.
FieldOf(h) ==
    CASE h = "uint_set"   -> "uint"
      [] h = "string_set" -> "string"
      [] h = "array_set"  -> "array"
      [] h = "map_set"    -> "map"

FieldQueries(f) ==
    CASE f = "uint"   -> UintGetData
      [] f = "string" -> StringGetData
      [] f = "array"  -> {Selector(SigArrayGet) \o j : j \in KeyWords}
      [] f = "map"    -> {Selector(SigMapGet) \o k : k \in KeyWords}

\* C20: the instance binds the uint, string, array and map fields to the
\* slot identifiers 0, 1, 2 and 3, and after a set operation on one field
\* every get of the three other fields under the same address returns what
\* it returned before the call (a call that left the storage as it was
\* changes no result).
C20_FieldIndependence ==
    /\ contract.uint_value = 0
    /\ contract.string_value = 1
    /\ contract.array_value = 2
    /\ contract.map_value = 3
    /\ (last.handler \in SetHandlers /\ storage # last.before)
       => \A f \in {"uint", "string", "array", "map"} \ {FieldOf(last.handler)} :
            \A q \in FieldQueries(f) :
              Query(storage, last.code_address, q)
              = Query(last.before, last.code_address, q)

\* C20 happens: a set-array wrote an element under an address whose uint
\* field holds a value, and get-uint still returns that value.
C20_Witness ==
    /\ Ran(last, "array_set") /\ Ok(last)
    /\ storage # last.before
    /\ <<last.code_address, 0, <<>>>> \in DOMAIN last.before
    /\ Query(storage, last.code_address, Selector(SigUintGet)).data
       = last.before[<<last.code_address, 0, <<>>>>]

\* C20 happens for set-map over a stored string.
C20_MapOverString ==
    /\ Ran(last, "map_set") /\ Ok(last)
    /\ storage # last.before
    /\ StoredString(storage, last.code_address) = Text(33)

====
